---- MODULE Spec2Model ----
(***************************************************************************)
(* Model of the OrderItem hooks of src/schema.ts (Keystone lists User,     *)
(* Product, Order, OrderItem): the resolveInput hook that snapshots the    *)
(* product name and price and computes lineTotalCents, the field           *)
(* validation declared on the lists, and the afterOperation hook that      *)
(* recalculates the parent Order's totalCents.                             *)
(*                                                                         *)
(* The specifications share the definitions:                               *)
(*   Spec        one request at a time: well-formed creates, updates and   *)
(*               deletes of OrderItems over two Orders, the afterOperation *)
(*               hook split at its two awaits, either of which may throw;  *)
(*   SpecProduct one request at a time: OrderItem writes, valid or not, on *)
(*               one Order, and Product writes; no query fails;            *)
(*   SpecFull    the requests of Spec and SpecProduct together;            *)
(*   SpecConc    NumProcs concurrent creates on one Order, recalculations  *)
(*               interleaved at their awaits;                              *)
(*   SpecResolve the write pipeline (defaults, resolveInput, validation,   *)
(*               stored row) applied to one call drawn from a wide input   *)
(*               set.                                                      *)
(* Stored integers stay far below the 32-bit range of the integer fields.  *)
(***************************************************************************)
EXTENDS Integers, FiniteSets, Sequences

\* ---------------------------------------------------------------- bounds
MaxItems == 2
NumProcs == 2

\* ------------------------------------------------------- field validation
QuantityMin == 1
QuantityDefault == 1
UnitPriceMin == 0
LineTotalMin == 0
PriceMin == 0
TotalMin == 0

\* ------------------------------------------------------------ identifiers
ItemIds == 1..MaxItems
Procs == 1..NumProcs
OrderIds == {"O1", "O2"}
ProductIds == {"P1"}
NoId == ""

\* ------------------------------------------------- JavaScript input values
\* an optional number: undefined, null or a number
Undef == [k |-> "undefined", v |-> 0]
Null == [k |-> "null", v |-> 0]
Num(n) == [k |-> "number", v |-> n]
\* an optional string: undefined, null or a string
UndefS == [k |-> "undefined", s |-> ""]
NullS == [k |-> "null", s |-> ""]
Str(x) == [k |-> "string", s |-> x]
\* a to-one relationship input: absent, { connect: { id } } or { disconnect: true }
NoRel == [k |-> "undefined", id |-> NoId]
Connect(i) == [k |-> "connect", id |-> i]
Disconnect == [k |-> "disconnect", id |-> NoId]

NoData ==
  [order |-> NoRel, product |-> NoRel, productNameSnapshot |-> UndefS,
   unitPriceCents |-> Undef, quantity |-> Undef, lineTotalCents |-> Undef]

\* the outcome of context.db.Product.findOne: a row, null, or a thrown error
Found(prod) == [k |-> "found", name |-> prod.name, priceCents |-> prod.priceCents]
NotFound == [k |-> "notfound", name |-> "", priceCents |-> 0]
LookupError == [k |-> "error", name |-> "", priceCents |-> 0]

VARIABLES products, orders, items, procs, call, ret

vars == <<products, orders, items, procs, call, ret>>

\* ----------------------------------------------------- stored OrderItem row
\* orderId and productId are NoId when the relation is null
Row(o, pr, n, u, q, l) ==
  [orderId |-> o, productId |-> pr, productNameSnapshot |-> n,
   unitPriceCents |-> u, quantity |-> q, lineTotalCents |-> l]

\* ------------------------------------------------------ resolveInput hook
\* The hook's `item` argument is <<>> (undefined, on create) or <<row>>.

\* resolveQuantity: data.quantity if a number, else item?.quantity ?? 1
ResolveQuantity(data, item) ==
  IF data.quantity.k = "number" THEN data.quantity.v
  ELSE IF item # <<>> THEN item[1].quantity
  ELSE 1

\* resolveProductId: the product connected by this write, else on update
\* without a product input the stored productId, else undefined (NoId)
ResolveProductId(operation, data, item) ==
  IF data.product.k = "connect" /\ data.product.id # NoId THEN data.product.id
  ELSE IF operation = "update" /\ data.product.k = "undefined"
          /\ item # <<>> /\ item[1].productId # NoId
       THEN item[1].productId
  ELSE NoId

NeedNameNoEmpty(data) ==
  data.productNameSnapshot.k \in {"undefined", "null"}

NeedName(data) ==
  \/ data.productNameSnapshot.k = "undefined"
  \/ data.productNameSnapshot.k = "null"
  \/ data.productNameSnapshot = Str("")

NeedPrice(data) == data.unitPriceCents.k = "undefined"

\* whether the hook calls context.db.Product.findOne
NeedsLookup(operation, data, item) ==
  /\ ResolveProductId(operation, data, item) # NoId
  /\ (NeedName(data) \/ NeedPrice(data))

\* the snapshot fields after the try/catch block: filled from the fetched
\* product only where missing in this write, untouched when findOne returned
\* null or threw
Snapshot(operation, data, item, lookup) ==
  IF NeedsLookup(operation, data, item) /\ lookup.k = "found"
  THEN [data EXCEPT
          !.productNameSnapshot =
             IF NeedName(data) THEN Str(lookup.name) ELSE @,
          !.unitPriceCents =
             IF NeedPrice(data) THEN Num(lookup.priceCents) ELSE @]
  ELSE data

UnitPriceNoItem(data, item) ==
  IF data.unitPriceCents.k = "number" THEN data.unitPriceCents.v ELSE 0

\* typeof data.unitPriceCents === 'number' ? it : (item?.unitPriceCents ?? 0)
UnitPrice(data, item) ==
  IF data.unitPriceCents.k = "number" THEN data.unitPriceCents.v
  ELSE IF item # <<>> THEN item[1].unitPriceCents
  ELSE 0

LineTotalTrusted(data, item) ==
  IF data.lineTotalCents.k = "number" THEN data.lineTotalCents.v
  ELSE ResolveQuantity(data, item) * UnitPrice(data, item)

\* quantity * unitPrice, whatever lineTotalCents the write carried
LineTotal(data, item) == ResolveQuantity(data, item) * UnitPrice(data, item)

ResolveInput(operation, resolvedData, item, lookup) ==
  LET data == Snapshot(operation, resolvedData, item, lookup)
  IN  [data EXCEPT !.lineTotalCents = Num(LineTotal(data, item))]

\* ------------------------------------------- the framework's write pipeline
\* defaultValue: 1 of OrderItem.quantity, applied on create before the hook
ApplyDefaults(operation, input) ==
  IF operation = "create" /\ input.quantity.k = "undefined"
  THEN [input EXCEPT !.quantity = Num(QuantityDefault)]
  ELSE input

IntOkNoMin(operation, f, min) ==
  \/ operation = "update" /\ f.k = "undefined"
  \/ f.k = "number"

\* integer({ validation: { isRequired: true, min } }): on create the value
\* must be a number >= min; on update a field absent from the write is not
\* validated
IntOk(operation, f, min) ==
  \/ operation = "update" /\ f.k = "undefined"
  \/ f.k = "number" /\ f.v >= min

\* text({ validation: { isRequired: true } })
TextOk(operation, f) ==
  \/ operation = "update" /\ f.k = "undefined"
  \/ f.k = "string" /\ f.s # ""

Valid(operation, data) ==
  /\ TextOk(operation, data.productNameSnapshot)
  /\ IntOk(operation, data.unitPriceCents, UnitPriceMin)
  /\ IntOk(operation, data.quantity, QuantityMin)
  /\ IntOk(operation, data.lineTotalCents, LineTotalMin)

RelId(rel, old) ==
  IF rel.k = "connect" THEN rel.id
  ELSE IF rel.k = "disconnect" THEN NoId
  ELSE old

\* the row the store holds once the validated data is written
StoredRow(data, item) ==
  LET old == IF item # <<>> THEN item[1] ELSE Row(NoId, NoId, "", 0, 0, 0)
  IN  Row(RelId(data.order, old.orderId),
          RelId(data.product, old.productId),
          IF data.productNameSnapshot.k = "string"
            THEN data.productNameSnapshot.s ELSE old.productNameSnapshot,
          IF data.unitPriceCents.k = "number"
            THEN data.unitPriceCents.v ELSE old.unitPriceCents,
          IF data.quantity.k = "number" THEN data.quantity.v ELSE old.quantity,
          IF data.lineTotalCents.k = "number"
            THEN data.lineTotalCents.v ELSE old.lineTotalCents)

\* ---------------------------------------------------- afterOperation hook
EffectiveOrderIdOriginal(item, originalItem) ==
  IF originalItem # <<>> THEN originalItem[1].orderId
  ELSE IF item # <<>> THEN item[1].orderId
  ELSE NoId

\* const effectiveItem = item || originalItem; its orderId, NoId when unset
EffectiveOrderId(item, originalItem) ==
  IF item # <<>> THEN item[1].orderId
  ELSE IF originalItem # <<>> THEN originalItem[1].orderId
  ELSE NoId

\* findMany({ where: { order: { id: { equals: orderId } } } })
ItemsOfOrder(its, orderId) == {i \in DOMAIN its : its[i].orderId = orderId}

RECURSIVE SumLineTotals(_, _)
\* orderItems.reduce((sum, oi) => sum + (oi.lineTotalCents || 0), 0)
SumLineTotals(its, ids) ==
  IF ids = {} THEN 0
  ELSE LET i == CHOOSE j \in ids : TRUE
       IN  its[i].lineTotalCents + SumLineTotals(its, ids \ {i})

OrderTotal(its, orderId) == SumLineTotals(its, ItemsOfOrder(its, orderId))

\* ------------------------------------------------------------ input sets
\* the field values of a well-formed write, and with the invalid ones added
Quantities == {1, 2}
GoodQtys == {Undef} \cup {Num(n) : n \in Quantities}
GoodPrices == {Undef}
AnyQtys == GoodQtys \cup {Num(0)}
AnyPrices == GoodPrices \cup {Num(-1)}
OrderConnects == {Connect(o) : o \in OrderIds}

\* the product writes a client sends: a rename with a new price, the
\* original name and price, and two invalid writes
ProductWrites ==
  {<<"Widget", 1999>>, <<"Gadget", 2500>>, <<"Widget", -1>>, <<"", 1999>>}

\* the OrderItem writes a client sends in the system specifications: the
\* product is connected on create, the snapshot fields are left to the hook
CreateInputs(orderRels, prices, qtys) ==
  {[NoData EXCEPT !.order = o, !.product = Connect("P1"),
                  !.unitPriceCents = u, !.quantity = q] :
     o \in orderRels, u \in prices, q \in qtys}

UpdateInputs(orderRels, prices, qtys) ==
  {[NoData EXCEPT !.order = o, !.unitPriceCents = u, !.quantity = q] :
     o \in orderRels, u \in prices, q \in qtys}

\* what findOne can answer for this write: the product row or an error
\* (one value when the hook does not call it)
Lookups(operation, input, item) ==
  LET data == ApplyDefaults(operation, input)
  IN  IF NeedsLookup(operation, data, item)
      THEN {Found(products[ResolveProductId(operation, data, item)]), LookupError}
      ELSE {NotFound}

\* ------------------------------------------------------------ requests
\* procs[p]: where process p stands in the request it serves. pc is "idle"
\* between requests, "list" before afterOperation's findMany and "update"
\* before its updateOne; operation and id are the request's, orderId and
\* total the hook's locals. Of the last request served, response is what the
\* client was told and recalc how afterOperation ended: "done" (the Order was
\* updated), "failed" (a query threw) or "skipped" (no order, or no commit).
IdleProc ==
  [pc |-> "idle", operation |-> "none", id |-> 0, orderId |-> NoId,
   total |-> 0, response |-> "none", recalc |-> "none"]

Respond(r, c) == [IdleProc EXCEPT !.response = r, !.recalc = c]

\* defaults, resolveInput and validation of one write: the hook's output,
\* whether the write is stored, and the row the store then holds
Pipeline(operation, input, item, lookup) ==
  LET data == ResolveInput(operation, ApplyDefaults(operation, input), item, lookup)
  IN  IF Valid(operation, data)
      THEN [status |-> "stored", data |-> data, row |-> StoredRow(data, item)]
      ELSE [status |-> "rejected", data |-> data,
            row |-> IF item # <<>> THEN item[1] ELSE Row(NoId, NoId, "", 0, 0, 0)]

NoCall == [operation |-> "none", input |-> NoData, item |-> <<>>, lookup |-> NotFound]
NoRet == [status |-> "none", data |-> NoData, row |-> Row(NoId, NoId, "", 0, 0, 0)]

AllIdle == \A p \in Procs : procs[p].pc = "idle"

FreeId == CHOOSE i \in ItemIds \ DOMAIN items :
            \A j \in ItemIds \ DOMAIN items : i <= j

\* if (!effectiveItem?.orderId) return; otherwise the hook goes on to findMany
AfterOperationStart(operation, id, orderId) ==
  IF orderId = NoId THEN Respond("ok", "skipped")
  ELSE [pc |-> "list", operation |-> operation, id |-> id, orderId |-> orderId,
        total |-> 0, response |-> "pending", recalc |-> "pending"]

\* create or update of an OrderItem up to its commit: defaults, resolveInput,
\* validation, the write, and the start of afterOperation
WriteItem(p, operation, id, input, lookup) ==
  LET item == IF operation = "update" THEN <<items[id]>> ELSE <<>>
      res  == Pipeline(operation, input, item, lookup)
  IN  /\ procs[p].pc = "idle"
      /\ IF res.status = "stored"
         THEN /\ items' = [i \in DOMAIN items \cup {id} |->
                             IF i = id THEN res.row ELSE items[i]]
              /\ procs' = [procs EXCEPT ![p] =
                   AfterOperationStart(operation, id,
                                       EffectiveOrderId(<<res.row>>, item))]
         ELSE /\ items' = items
              /\ procs' = [procs EXCEPT ![p] = Respond("ValidationError", "skipped")]
      /\ UNCHANGED <<products, orders, call, ret>>

CreateItem(p, orderRels, prices, qtys) ==
  /\ ItemIds \ DOMAIN items # {}
  /\ \E input \in CreateInputs(orderRels, prices, qtys) :
       \E lookup \in Lookups("create", input, <<>>) :
         WriteItem(p, "create", FreeId, input, lookup)

UpdateItem(p, orderRels, prices, qtys) ==
  \E id \in DOMAIN items : \E input \in UpdateInputs(orderRels, prices, qtys) :
    \E lookup \in Lookups("update", input, <<items[id]>>) :
      WriteItem(p, "update", id, input, lookup)

DeleteItem(p) ==
  \E id \in DOMAIN items :
    /\ procs[p].pc = "idle"
    /\ items' = [i \in DOMAIN items \ {id} |-> items[i]]
    /\ procs' = [procs EXCEPT ![p] =
         AfterOperationStart("delete", id, EffectiveOrderId(<<>>, <<items[id]>>))]
    /\ UNCHANGED <<products, orders, call, ret>>

\* await context.db.OrderItem.findMany(...) and the reduce
RecalcList(p) ==
  /\ procs[p].pc = "list"
  /\ procs' = [procs EXCEPT ![p].pc = "update",
                            ![p].total = OrderTotal(items, procs[p].orderId)]
  /\ UNCHANGED <<products, orders, items, call, ret>>

RecalcFailRethrow(p) ==
  /\ procs[p].pc \in {"list", "update"}
  /\ procs' = [procs EXCEPT ![p] = Respond("error", "failed")]
  /\ UNCHANGED <<products, orders, items, call, ret>>

\* findMany or updateOne throws: caught, logged, the hook returns
RecalcFail(p) ==
  /\ procs[p].pc \in {"list", "update"}
  /\ procs' = [procs EXCEPT ![p] = Respond("ok", "failed")]
  /\ UNCHANGED <<products, orders, items, call, ret>>

\* await context.db.Order.updateOne({ data: { totalCents: total } }); a total
\* below the field's min is a validation error, caught like any other
RecalcUpdate(p) ==
  /\ procs[p].pc = "update"
  /\ IF procs[p].total >= TotalMin
     THEN /\ orders' = [orders EXCEPT ![procs[p].orderId].totalCents = procs[p].total]
          /\ procs' = [procs EXCEPT ![p] = Respond("ok", "done")]
     ELSE /\ orders' = orders
          /\ procs' = [procs EXCEPT ![p] = Respond("ok", "failed")]
  /\ UNCHANGED <<products, items, call, ret>>

UpdateProductResnapshot(name, priceCents) ==
  /\ AllIdle
  /\ name # "" /\ priceCents >= PriceMin
  /\ products' = [products EXCEPT !["P1"] = [name |-> name, priceCents |-> priceCents]]
  /\ items' = [i \in DOMAIN items |->
                 IF items[i].productId = "P1"
                 THEN [items[i] EXCEPT !.productNameSnapshot = name,
                                       !.unitPriceCents = priceCents]
                 ELSE items[i]]
  /\ UNCHANGED <<orders, procs, call, ret>>

\* update of a Product (the list declares no hooks): name is required,
\* priceCents is required and >= 0; an invalid write changes nothing
UpdateProduct(name, priceCents) ==
  /\ AllIdle
  /\ IF name # "" /\ priceCents >= PriceMin
     THEN products' = [products EXCEPT !["P1"] =
                         [name |-> name, priceCents |-> priceCents]]
     ELSE products' = products
  /\ UNCHANGED <<orders, items, procs, call, ret>>

\* ----------------------------------------------------------------- Spec
Init ==
  /\ products = [p \in ProductIds |-> [name |-> "Widget", priceCents |-> 1999]]
  /\ orders = [o \in OrderIds |-> [totalCents |-> 0]]
  /\ items = <<>>
  /\ procs = [p \in Procs |-> IdleProc]
  /\ call = NoCall
  /\ ret = NoRet

\* one request at a time, served by process 1; well-formed writes that
\* connect either Order or none, the queries of afterOperation may fail; no
\* Product is written
Next ==
  \/ AllIdle /\ CreateItem(1, {NoRel} \cup OrderConnects, GoodPrices, GoodQtys)
  \/ AllIdle /\ UpdateItem(1, {NoRel, Disconnect} \cup OrderConnects,
                            GoodPrices, GoodQtys)
  \/ AllIdle /\ DeleteItem(1)
  \/ RecalcList(1)
  \/ RecalcUpdate(1)
  \/ RecalcFail(1)

Spec == Init /\ [][Next]_vars

\* ---------------------------------------------------------- SpecProduct
\* one request at a time; Product writes between the OrderItem requests; the
\* OrderItem writes, valid or not, use Order O1 or none; no query of
\* afterOperation fails
NextProduct ==
  \/ AllIdle /\ CreateItem(1, {NoRel, Connect("O1")}, AnyPrices, AnyQtys)
  \/ AllIdle /\ UpdateItem(1, {NoRel, Disconnect, Connect("O1")},
                            AnyPrices, AnyQtys)
  \/ AllIdle /\ DeleteItem(1)
  \/ RecalcList(1)
  \/ RecalcUpdate(1)
  \/ \E w \in ProductWrites : UpdateProduct(w[1], w[2])

SpecProduct == Init /\ [][NextProduct]_vars

\* ------------------------------------------------------------- SpecFull
\* every request of Spec and SpecProduct together
NextFull ==
  \/ AllIdle /\ CreateItem(1, {NoRel} \cup OrderConnects, AnyPrices, AnyQtys)
  \/ AllIdle /\ UpdateItem(1, {NoRel, Disconnect} \cup OrderConnects,
                            AnyPrices, AnyQtys)
  \/ AllIdle /\ DeleteItem(1)
  \/ RecalcList(1)
  \/ RecalcUpdate(1)
  \/ RecalcFail(1)
  \/ \E w \in ProductWrites : UpdateProduct(w[1], w[2])

SpecFull == Init /\ [][NextFull]_vars

\* ------------------------------------------------------------- SpecConc
\* every process creates one OrderItem on Order O1; the processes interleave
\* at the awaits of afterOperation; no query fails
ConcCreate(p) ==
  /\ procs[p].recalc = "none"
  /\ CreateItem(p, {Connect("O1")}, AnyPrices, AnyQtys)

NextConc ==
  \E p \in Procs :
    \/ ConcCreate(p)
    \/ RecalcList(p)
    \/ RecalcUpdate(p)

SpecConc == Init /\ [][NextConc]_vars

\* ---------------------------------------------------------- SpecResolve
\* The write pipeline applied to one call: call holds the operation, the
\* write, the stored item (<<>> on create) and what findOne answers; ret
\* receives the pipeline's result.
RichNames == {UndefS, NullS, Str(""), Str("Custom")}
RichPrices == {Undef, Null, Num(-1), Num(500)}
RichQtys == {Null, Num(3)} \cup AnyQtys
RichLineTotals == {Undef, Num(7)}

\* rows a committed OrderItem can hold
StoredRows ==
  {Row("O1", pr, n, u, q, q * u) :
     pr \in ProductIds \cup {NoId}, n \in {"Widget", "Custom"},
     u \in {1999, 500}, q \in Quantities}

ProductRows == {[name |-> n, priceCents |-> c] : n \in {"Widget", "Gadget"}, c \in {1999, 2500}}

RichInputs(orderRels, productRels) ==
  {[order |-> o, product |-> pr, productNameSnapshot |-> n,
    unitPriceCents |-> u, quantity |-> q, lineTotalCents |-> l] :
     o \in orderRels, pr \in productRels, n \in RichNames, u \in RichPrices,
     q \in RichQtys, l \in RichLineTotals}

RichLookups(operation, input, item) ==
  IF NeedsLookup(operation, ApplyDefaults(operation, input), item)
  THEN {Found(r) : r \in ProductRows} \cup {NotFound, LookupError}
  ELSE {NotFound}

Calls ==
  {[operation |-> "create", input |-> in, item |-> <<>>, lookup |-> l] :
     in \in RichInputs({Connect("O1")}, {NoRel, Connect("P1")}),
     l \in {Found(r) : r \in ProductRows} \cup {NotFound, LookupError}}
  \cup
  {[operation |-> "update", input |-> in, item |-> <<r>>, lookup |-> l] :
     in \in RichInputs({NoRel}, {NoRel, Connect("P1"), Disconnect}),
     r \in StoredRows,
     l \in {Found(pr) : pr \in ProductRows} \cup {NotFound, LookupError}}

InitResolve ==
  /\ products = [p \in ProductIds |-> [name |-> "Widget", priceCents |-> 1999]]
  /\ orders = [o \in OrderIds |-> [totalCents |-> 0]]
  /\ items = <<>>
  /\ procs = [p \in Procs |-> IdleProc]
  /\ call \in {c \in Calls : c.lookup \in RichLookups(c.operation, c.input, c.item)}
  /\ ret = NoRet

Invoke ==
  /\ ret.status = "none"
  /\ ret' = Pipeline(call.operation, call.input, call.item, call.lookup)
  /\ UNCHANGED <<products, orders, items, procs, call>>

SpecResolve == InitResolve /\ [][Invoke]_vars

\* ================================================================ claims

\* the write carries quantity and nothing else
QuantityOnly(input) ==
  /\ input.quantity.k = "number"
  /\ input = [NoData EXCEPT !.quantity = input.quantity]

\* C1 (SpecResolve): a stored update that carries only quantity, on an item
\* whose snapshot fields are set, leaves productNameSnapshot and
\* unitPriceCents as they were, whatever the Product's current name and price.
C1_QuantityUpdateKeepsSnapshot ==
  (ret.status = "stored" /\ call.operation = "update" /\ QuantityOnly(call.input))
    => /\ ret.row.productNameSnapshot = call.item[1].productNameSnapshot
       /\ ret.row.unitPriceCents = call.item[1].unitPriceCents

\* C2 (Spec): when the successful recalculation of a create, update or delete of an
\* OrderItem completes, the totalCents of the Order the item belongs to (for
\* delete: belonged to) is the sum of lineTotalCents over that Order's items.
C2_Step ==
  (procs[1].pc = "update" /\ procs'[1].recalc = "done")
    => LET o == IF procs[1].operation = "delete" THEN procs[1].orderId
                ELSE items'[procs[1].id].orderId
       IN  o # NoId => orders'[o].totalCents = OrderTotal(items', o)

C2_TotalIsSumAfterOperation == [][C2_Step]_vars

C2_Witness ==
  /\ AllIdle /\ procs[1].recalc = "done"
  /\ Cardinality(ItemsOfOrder(items, "O1")) = 2
  /\ \E i, j \in DOMAIN items : items[i].quantity # items[j].quantity
  /\ orders["O1"].totalCents = OrderTotal(items, "O1")
  /\ orders["O1"].totalCents > 0

\* C3 (SpecResolve): after a stored create or update the row satisfies
\* lineTotalCents = quantity * unitPriceCents, whatever lineTotalCents the
\* write carried.
C3_LineTotalIsProduct ==
  ret.status = "stored"
    => ret.row.lineTotalCents = ret.row.quantity * ret.row.unitPriceCents

C3_Witness ==
  /\ ret.status = "stored" /\ call.operation = "update"
  /\ call.input.lineTotalCents = Num(7)
  /\ call.input.quantity = Undef
  /\ call.input.unitPriceCents = Num(500)
  /\ call.item[1].unitPriceCents = 1999 /\ call.item[1].quantity = 2
  /\ ret.row.lineTotalCents = 1000

\* C4 (SpecConc): once the concurrent creates on Order O1 and their
\* recalculations have all finished, O1's totalCents is the sum of
\* lineTotalCents over O1's items.
C4_ConcurrentCreatesSettle ==
  (\A p \in Procs : procs[p].recalc = "done")
    => orders["O1"].totalCents = OrderTotal(items, "O1")

\* C5 (SpecProduct): a write to a Product changes no OrderItem and no Order.
C5_ProductWriteFrame ==
  [][products' # products => (items' = items /\ orders' = orders)]_vars

C5_Witness ==
  /\ AllIdle
  /\ products["P1"] = [name |-> "Gadget", priceCents |-> 2500]
  /\ \E i \in DOMAIN items :
       /\ items[i].productId = "P1" /\ items[i].orderId = "O1"
       /\ items[i].productNameSnapshot = "Widget"
       /\ items[i].unitPriceCents = 1999
       /\ items[i].lineTotalCents = 1999 * items[i].quantity
  /\ orders["O1"].totalCents = OrderTotal(items, "O1")

\* C6 (SpecResolve): on a create that connects an existing Product,
\* productNameSnapshot is the Product's name if the write left it absent,
\* null or empty and the write's value otherwise; unitPriceCents is the
\* Product's priceCents if the write left it absent and the write's value
\* otherwise.
C6_CreateFillsMissingSnapshot ==
  LET in == call.input
      missingName == \/ in.productNameSnapshot.k \in {"undefined", "null"}
                     \/ in.productNameSnapshot = Str("")
      missingPrice == in.unitPriceCents.k = "undefined"
  IN  ( /\ ret.status # "none" /\ call.operation = "create"
        /\ in.product.k = "connect"
        /\ (call.lookup.k = "found" \/ (~missingName /\ ~missingPrice)) )
        => /\ ret.data.productNameSnapshot =
                IF missingName THEN Str(call.lookup.name) ELSE in.productNameSnapshot
           /\ ret.data.unitPriceCents =
                IF missingPrice THEN Num(call.lookup.priceCents) ELSE in.unitPriceCents

C6_Witness ==
  /\ ret.status = "stored" /\ call.operation = "create"
  /\ call.input.product = Connect("P1")
  /\ call.input.productNameSnapshot = UndefS /\ call.input.unitPriceCents = Undef
  /\ call.lookup = Found([name |-> "Widget", priceCents |-> 1999])
  /\ ret.row.productNameSnapshot = "Widget" /\ ret.row.unitPriceCents = 1999

\* C7 (SpecProduct): every stored OrderItem has quantity >= 1,
\* unitPriceCents >= 0 and lineTotalCents >= 0, every Product priceCents >= 0,
\* every Order totalCents >= 0 (so no write with quantity 0 or a negative
\* price is ever stored), and a write answered with a validation error
\* stores nothing.
C7_StoredOk ==
  /\ \A i \in DOMAIN items :
       /\ items[i].quantity >= 1
       /\ items[i].unitPriceCents >= 0
       /\ items[i].lineTotalCents >= 0
  /\ \A p \in ProductIds : products[p].priceCents >= 0
  /\ \A o \in OrderIds : orders[o].totalCents >= 0

C7_RejectStoresNothing ==
  procs'[1].response = "ValidationError" => (items' = items /\ orders' = orders)

C7_ValidatedFields == []C7_StoredOk /\ [][C7_RejectStoresNothing]_vars

C7_Witness ==
  /\ procs[1].response = "ValidationError"
  /\ \E i \in DOMAIN items : items[i].quantity = 1

\* C8 (SpecResolve): when the hook's Product lookup throws or finds nothing,
\* the hook still returns: productNameSnapshot and unitPriceCents are the
\* write's own, and lineTotalCents is the effective quantity times the
\* write's unitPriceCents, else the stored one, else 0.
C8_LookupFailureKeepsSupplied ==
  LET in == ApplyDefaults(call.operation, call.input)
      q == IF in.quantity.k = "number" THEN in.quantity.v
           ELSE IF call.item # <<>> THEN call.item[1].quantity ELSE 1
      u == IF in.unitPriceCents.k = "number" THEN in.unitPriceCents.v
           ELSE IF call.item # <<>> THEN call.item[1].unitPriceCents ELSE 0
  IN  ( /\ ret.status # "none"
        /\ NeedsLookup(call.operation, in, call.item)
        /\ call.lookup.k \in {"notfound", "error"} )
        => /\ ret.status \in {"stored", "rejected"}
           /\ ret.data.productNameSnapshot = in.productNameSnapshot
           /\ ret.data.unitPriceCents = in.unitPriceCents
           /\ ret.data.lineTotalCents = Num(q * u)

C8_Witness ==
  /\ ret.status # "none" /\ call.operation = "update"
  /\ call.lookup = LookupError
  /\ call.item[1].productId = "P1" /\ call.item[1].unitPriceCents = 500
  /\ call.input.product = NoRel
  /\ call.input.unitPriceCents = Undef /\ call.input.quantity = Num(3)
  /\ ret.data.unitPriceCents = Undef
  /\ ret.data.lineTotalCents = Num(1500)
  /\ ret.status = "stored" /\ ret.row.lineTotalCents = 1500

\* C9 (Spec): when a query of the recalculation throws, the OrderItem
\* write stays as committed, the Order keeps its totalCents and the request
\* is answered as successful.
C9_Step ==
  (procs[1].pc \in {"list", "update"} /\ procs'[1].recalc = "failed")
    => /\ items' = items
       /\ orders' = orders
       /\ procs'[1].response = "ok"

C9_RecalcFailureSwallowed == [][C9_Step]_vars

C9_Witness ==
  /\ procs[1].recalc = "failed" /\ procs[1].response = "ok"
  /\ items # <<>>
  /\ orders["O1"].totalCents # OrderTotal(items, "O1")

\* C10 (SpecProduct): between requests, every Order's totalCents is the sum of
\* lineTotalCents over the OrderItems that belong to it.
C10_EveryOrderTotalIsSum ==
  AllIdle => \A o \in OrderIds : orders[o].totalCents = OrderTotal(items, o)

====
